---- MODULE Spec2Model ----
(***************************************************************************)
(* Model of the Iridium SBD mobile-originated message decoder of           *)
(* tots_sbd_decode/parse.py.                                               *)
(*                                                                         *)
(* A decode call is modelled as one step that runs IridiumSBD.load on a    *)
(* byte sequence.  Every function of the decoder is the sequence of the    *)
(* effects it has, in program order: an assignment to a key of the         *)
(* attribute tree, a printed line, a raised exception.  Running the        *)
(* sequence up to its first exception gives the tree, the output and the   *)
(* exception of the call.  An entry of the tree is [k, s, n]: k is the     *)
(* path of the key from the root, s the string part of the value (a name,  *)
(* a unit, or "dict" for a nested dictionary) and n its numeric part       *)
(* (digits of a hex or binary rendering, an integer, a flag).              *)
(***************************************************************************)
EXTENDS Integers, Sequences, FiniteSets, TLC

\* ------------------------------------------------------------------ bounds

\* longest message handed to load
MaxLen == 67
\* every length up to this one is handed to load
MaxShort == 34
\* largest field width tried for _parse_twos_complement
MaxWidth == 8

\* ----------------------------------------------------------- Python helpers

Min(a, b) == IF a < b THEN a ELSE b
Max(a, b) == IF a > b THEN a ELSE b

\* normalisation of a slice bound, as Python does for seq[a:b]
SliceBound(i, n) == IF i < 0 THEN Max(i + n, 0) ELSE Min(i, n)

\* seq[a:b] with 0-based, possibly negative bounds
Slice(bs, a, b) ==
    LET lo == SliceBound(a, Len(bs))
        hi == SliceBound(b, Len(bs))
    IN  IF lo < hi THEN SubSeq(bs, lo + 1, hi) ELSE << >>

\* seq[a:]
SliceFrom(bs, a) == Slice(bs, a, Len(bs))

\* seq[i] for an index the caller has checked (0 stands for "no value")
Byte(bs, i) == IF i >= 0 /\ i < Len(bs) THEN bs[i + 1] ELSE 0

\* int.from_bytes(bs, 'big', signed=False)
RECURSIVE FromBytes(_)
FromBytes(bs) ==
    IF bs = << >> THEN 0
    ELSE 256 * FromBytes(SubSeq(bs, 1, Len(bs) - 1)) + bs[Len(bs)]

\* number of binary digits of a non-negative integer (at least one)
RECURSIVE BitLength(_)
BitLength(v) == IF v < 2 THEN 1 ELSE 1 + BitLength(v \div 2)

\* (byte & mask << position) >> position, for the masks 2^k - 1 the code uses
_isolate_bits(byte, position, mask) == (byte \div (2 ^ position)) % (mask + 1)

\* the digits after "0b" of format(v, '#0{pad+2}b'): at least pad digits
BinDigits(v, pad) ==
    LET w == Max(pad, BitLength(v))
    IN  [i \in 1..w |-> (v \div (2 ^ (w - i))) % 2]

\* _binify of a bytes value or a tuple: the renderings joined by a space (2)
RECURSIVE BinifyEach(_, _)
BinifyEach(bs, pads) ==
    IF bs = << >> \/ pads = << >> THEN << >>
    ELSE IF Len(bs) = 1 \/ Len(pads) = 1 THEN BinDigits(bs[1], pads[1])
    ELSE BinDigits(bs[1], pads[1]) \o <<2>> \o BinifyEach(Tail(bs), Tail(pads))

_binify(byte_or_bytes, pad) ==
    BinifyEach(byte_or_bytes, [i \in 1..Len(byte_or_bytes) |-> pad])

\* binascii.hexlify(bs, ' ', 2): two digits (0..15) per byte and a space (16)
\* between groups of two bytes, the groups counted from the right, so that a
\* leading group of one byte is left when the length is odd.  With the text
\* padded on the left to whole groups of a space and four digits, position j
\* is a space when it starts a group and else a digit of byte (d \div 2) + 1
_hexlify(bs) ==
    LET n   == Len(bs)
        odd == n % 2
        off == IF odd = 1 THEN 3 ELSE 1
        len == IF n = 0 THEN 0 ELSE 2 * n + (n - 1) \div 2
    IN  [j \in 1..len |->
            LET within == (j + off - 1) % 5
                d      == ((j + off - 1) \div 5) * 4 + within - 1 - 2 * odd
            IN  IF within = 0 THEN 16
                ELSE IF d % 2 = 0 THEN bs[(d \div 2) + 1] \div 16
                ELSE bs[(d \div 2) + 1] % 16]

\* _hexlify of an int: bytes([b])
HexByte(b) == _hexlify(<<b>>)

\* ------------------------------------------------------- the decoder state

\* attrs[k] = value
Put(k, s, n) == <<[t |-> "put", k |-> k, s |-> s, n |-> n]>>

\* attrs[k] = collections.OrderedDict()
PutDict(k) == Put(k, "dict", << >>)

\* print(...): a line on standard output
Emit(line) == <<[t |-> "print", k |-> << >>, s |-> line, n |-> << >>]>>

\* raise: the exception leaves the current call and every caller
Raise(e) == <<[t |-> "raise", k |-> << >>, s |-> e, n |-> << >>]>>

\* evaluation of bs[i]: IndexError when i is not an index of bs
Index(bs, i) == IF i < Len(bs) THEN << >> ELSE Raise("IndexError")

\* the effects that happen: those before the first exception
Executed(effects) ==
    LET raised == {i \in 1..Len(effects) : effects[i].t = "raise"}
        first  == IF raised = {} THEN Len(effects) + 1
                  ELSE CHOOSE i \in raised : \A j \in raised : i <= j
    IN  [done |-> SubSeq(effects, 1, first - 1),
         exc  |-> IF raised = {} THEN "none" ELSE effects[first].s]

IsPut(e) == e.t = "put"
IsPrinted(e) == e.t = "print"

\* the outcome of a call: the tree, the printed lines, the exception
Outcome(effects) ==
    LET x == Executed(effects)
    IN  [attrs |-> SelectSeq(x.done, IsPut),
         out   |-> SelectSeq(x.done, IsPrinted),
         exc   |-> x.exc]

\* _parse_bool_flag
_parse_bool_flag(byte, name, position, p) ==
    LET flag == _isolate_bits(byte, position, 1)
    IN  Put(p \o <<name \o "-(bin)">>, "", BinDigits(flag, 1))
        \o Put(p \o <<name>>, "", <<flag>>)

\* ------------------------------------------------------- chained locations

\* _time_weights, as seconds of the timedelta
_time_weights(weight) ==
    CASE weight = 0 -> 30
      [] weight = 1 -> 120
      [] weight = 2 -> 900
      [] weight = 3 -> 3600
      [] weight = 4 -> 14400
      [] weight = 5 -> 28800
      [] weight = 6 -> 43200
      [] weight = 7 -> 86400

\* duration == 0 on line 64: the left side is a datetime.timedelta and the
\* right side the int 0; timedelta.__eq__ answers NotImplemented for an int,
\* so the comparison is False for every duration
TimedeltaEqualsInt(seconds, i) == FALSE

\* the value stored under 'duration': the sentinel, or a number of seconds
DeltaTimeDuration(delta_time) ==
    LET weight     == _isolate_bits(delta_time, 5, 7)
        multiplier == delta_time % 32
        duration   == multiplier * _time_weights(weight)
    IN  IF TimedeltaEqualsInt(duration, 0)
        THEN [sentinel |-> TRUE, seconds |-> 0]
        ELSE [sentinel |-> FALSE, seconds |-> duration]

_parse_chained_location_delta_time(delta_time, p) ==
    LET weight     == _isolate_bits(delta_time, 5, 7)
        multiplier == delta_time % 32
        d          == DeltaTimeDuration(delta_time)
    IN  Put(p \o <<"(bin)">>, "", BinDigits(delta_time, 8))
        \o Put(p \o <<"(weight)-(bin)">>, "", BinDigits(weight, 3))
        \o Put(p \o <<"(weight)">>, "timedelta", <<_time_weights(weight)>>)
        \o Put(p \o <<"(multiplier)-(bin)">>, "", BinDigits(multiplier, 5))
        \o Put(p \o <<"(multiplier)">>, "", <<multiplier>>)
        \o (IF d.sentinel
            THEN Put(p \o <<"duration">>, ">31 days", << >>)
            ELSE Put(p \o <<"duration">>, "timedelta", <<d.seconds>>))

\* the wrap taken at the threshold itself: >= where line 249 has >
LatLongDecimalWrapsAtThreshold(encoded) ==
    IF encoded >= 2 ^ 23 THEN -1 * (2 * (2 ^ 23) - encoded) ELSE encoded

\* the decoded coordinate in units of full/2^23 degrees (full = 90 for a
\* latitude, 180 for a longitude): encoded / threshold > full is
\* encoded > 2^23, and -1 * (2 * full - encoded / threshold) is
\* encoded - 2^24 in these units
LatLongDecimal(encoded) ==
    IF encoded > 2 ^ 23 THEN -1 * (2 * (2 ^ 23) - encoded) ELSE encoded

\* _convert_dec_to_dm, to whole minutes: <<degrees, minutes>> of a coordinate
\* given in units of full/2^23 degrees, the sign on the degrees, or on the
\* minutes when the degrees are 0
_convert_dec_to_dm(units, full) ==
    LET negative == units < 0
        dd       == IF negative THEN -units ELSE units
        degrees  == (dd * full) \div (2 ^ 23)
        minutes  == (((dd * full) % (2 ^ 23)) * 60) \div (2 ^ 23)
    IN  IF ~negative THEN <<degrees, minutes>>
        ELSE IF degrees > 0 THEN <<-degrees, minutes>>
        ELSE <<degrees, -minutes>>

_parse_position_lat_long(payload_lat_long, p) ==
    LET lat      == Slice(payload_lat_long, 0, 3)
        lat_dec  == LatLongDecimal(FromBytes(lat))
        long     == Slice(payload_lat_long, 3, 6)
        long_dec == LatLongDecimal(FromBytes(long))
    IN  Put(p \o <<"latitude-(hex)">>, "", _hexlify(lat))
        \o Put(p \o <<"latitude-(decimal)">>, "deg", <<lat_dec>>)
        \o Put(p \o <<"latitude">>, "dm", _convert_dec_to_dm(lat_dec, 90))
        \o Put(p \o <<"longitude-(hex)">>, "", _hexlify(long))
        \o Put(p \o <<"longitude-(decimal)">>, "deg", <<long_dec>>)
        \o Put(p \o <<"longitude">>, "dm", _convert_dec_to_dm(long_dec, 180))

_parse_position_heading_speed(payload_heading_speed, p) ==
    LET heading == _isolate_bits(payload_heading_speed, 5, 7)
        speed   == payload_heading_speed % 32
    IN  Put(p \o <<"(hex)">>, "", HexByte(payload_heading_speed))
        \o Put(p \o <<"(bin)">>, "", BinDigits(payload_heading_speed, 8))
        \o Put(p \o <<"heading-(bin)">>, "", BinDigits(heading, 3))
        \o Put(p \o <<"heading">>, "deg", <<heading * 45>>)
        \o Put(p \o <<"speed-(bin)">>, "", BinDigits(speed, 5))
        \o Put(p \o <<"speed">>, "mph", <<speed * 4>>)

_parse_chained_location_status_beta(status, p) ==
    Put(p \o <<"(hex)">>, "", HexByte(status))
    \o Put(p \o <<"(bin)">>, "", BinDigits(status, 8))
    \o _parse_position_heading_speed(status, p)

_parse_chained_location_status_prod(status, p) ==
    LET speed == status % 16
    IN  Put(p \o <<"(hex)">>, "", HexByte(status))
        \o Put(p \o <<"(bin)">>, "", BinDigits(status, 8))
        \o _parse_bool_flag(status, "from-position-message", 0, p)
        \o _parse_bool_flag(status, "from-power-save-position-message", 1, p)
        \o _parse_bool_flag(status, "from-home-position-message", 2, p)
        \o _parse_bool_flag(status, "from-away-position-message", 3, p)
        \o _parse_bool_flag(status, "from-user-position-message", 4, p)
        \o _parse_bool_flag(status, "from-radio-silence-out-position-message", 5, p)
        \o _parse_bool_flag(status, "from-motion-start-message", 6, p)
        \o _parse_bool_flag(status, "from-motion-stop-message", 7, p)
        \o _parse_bool_flag(status, "from-in-motion-message", 8, p)
        \o Put(p \o <<"speed-(bin)">>, "", BinDigits(speed, 4))
        \o Put(p \o <<"speed">>, "mph", <<speed * 8>>)

_parse_chained_location(chained_location, p) ==
    Put(p \o <<"(hex)">>, "", _hexlify(chained_location))
    \o PutDict(p \o <<"chain-delta-time">>)
    \o Index(chained_location, 0)
    \o _parse_chained_location_delta_time(
           Byte(chained_location, 0), p \o <<"chain-delta-time">>)
    \o _parse_position_lat_long(Slice(chained_location, 1, 7), p)
    \o PutDict(p \o <<"status-beta">>)
    \o Index(chained_location, 7)
    \o _parse_chained_location_status_beta(
           Byte(chained_location, 7), p \o <<"status-beta">>)
    \o PutDict(p \o <<"status-prod">>)
    \o _parse_chained_location_status_prod(
           Byte(chained_location, 7), p \o <<"status-prod">>)

\* the loop of _parse_position_msg_chain, from offset i on
RECURSIVE ChainFrom(_, _, _)
ChainFrom(payload_chained, i, p) ==
    IF i >= Len(payload_chained) THEN << >>
    ELSE PutDict(p \o <<ToString(i \div 8)>>)
         \o _parse_chained_location(
                Slice(payload_chained, i, i + 8), p \o <<ToString(i \div 8)>>)
         \o ChainFrom(payload_chained, i + 8, p)

_parse_position_msg_chain(payload_chained, p) ==
    Put(p \o <<"(hex)">>, "", _hexlify(payload_chained))
    \o (IF Len(payload_chained) % 8 # 0
        THEN Emit("Warning: chained positions have unexpected total length")
        ELSE << >>)
    \o ChainFrom(payload_chained, 0, p)

\* -------------------------------------------------------- position messages

\* _position_msg_subtypes: the dictionary's keys and its lookup
PositionSubtypeCodes == {0, 1, 3, 4, 5, 20, 23, 27}

_position_msg_subtypes(raw_subtype) ==
    CASE raw_subtype = 0  -> "radio-silence-in"
      [] raw_subtype = 1  -> "radio-silence-out"
      [] raw_subtype = 3  -> "start-motion"
      [] raw_subtype = 4  -> "stop-motion"
      [] raw_subtype = 5  -> "in-motion"
      [] raw_subtype = 20 -> "null-gps"
      [] raw_subtype = 23 -> "user-position-message"
      [] raw_subtype = 27 -> "position"

_parse_position_header_msg_count(header, p) ==
    LET msg_count == _isolate_bits(header, 6, 3)
    IN  Put(p \o <<"message-count-(bin)">>, "", BinDigits(msg_count, 2))
        \o Put(p \o <<"message-count">>, "", <<msg_count>>)

\* _gps_quality_values
_gps_quality_values(gps_quality) == IF gps_quality = 1 THEN "3D" ELSE "2D"

_parse_position_header_gps_quality(header, p) ==
    LET gps_quality == _isolate_bits(header, 5, 1)
    IN  Put(p \o <<"gps-quality-(bin)">>, "", BinDigits(gps_quality, 1))
        \o Put(p \o <<"gps-quality">>, _gps_quality_values(gps_quality), << >>)

\* the flag fields of the header: the match statement of lines 138-164
PositionHeaderFlags(header, msg_subtype, p) ==
    CASE msg_subtype = "radio-silence-in" ->
           _parse_position_header_msg_count(header, p)
           \o Put(p \o <<"(unused)-(bin)">>, "",
                  BinDigits(_isolate_bits(header, 5, 1), 1))
           \o (IF _isolate_bits(header, 5, 1) # 1
               THEN Emit("Error: bit 5 of message header has unexpected value!")
               ELSE << >>)
      [] msg_subtype = "radio-silence-out" ->
           _parse_position_header_msg_count(header, p)
           \o _parse_position_header_gps_quality(header, p)
      [] msg_subtype \in {"start-motion", "stop-motion", "in-motion"} ->
           _parse_position_header_msg_count(header, p)
           \o _parse_position_header_gps_quality(header, p)
      [] msg_subtype = "null-gps" ->
           Put(p \o <<"(unused)-(bin)">>, "",
               BinDigits(_isolate_bits(header, 6, 3), 2))
           \o (IF _isolate_bits(header, 5, 1) # 1
               THEN Emit("Error: bit 5 of message header has unexpected value!")
               ELSE << >>)
           \o _parse_bool_flag(header, "powersave-mode", 5, p)
      [] msg_subtype = "user-position" ->
           _parse_position_header_msg_count(header, p)
           \o _parse_position_header_gps_quality(header, p)
      [] msg_subtype = "position" ->
           _parse_bool_flag(header, "powersave-mode", 7, p)
           \o _parse_bool_flag(header, "secondary-over-50%", 6, p)
           \o _parse_position_header_gps_quality(header, p)
      [] OTHER -> Emit("Error: unexpected message subtype (name)!")

\* the value _parse_position_msg_header returns: the subtype name, or "None"
PositionSubtype(header) ==
    IF (header % 32) \notin PositionSubtypeCodes THEN "None"
    ELSE _position_msg_subtypes(header % 32)

\* the header decoder with the subtype bits stored before they are looked
\* up, where lines 132-135 return before any subtype field is stored
ParseHeaderStoresSubtypeFirst(header, p) ==
    LET raw_subtype == header % 32
    IN  Put(p \o <<"(hex)">>, "", HexByte(header))
        \o Put(p \o <<"(bin)">>, "", BinDigits(header, 8))
        \o Put(p \o <<"message-subtype-(bin)">>, "", BinDigits(raw_subtype, 5))
        \o (IF raw_subtype \notin PositionSubtypeCodes
            THEN Emit("Error: unexpected message subtype (code)!")
            ELSE PositionHeaderFlags(header, _position_msg_subtypes(raw_subtype), p)
                 \o Put(p \o <<"message-subtype-(hex)">>, "", HexByte(raw_subtype))
                 \o Put(p \o <<"message-subtype">>,
                        _position_msg_subtypes(raw_subtype), << >>))

_parse_position_msg_header(header, p) ==
    LET raw_subtype == header % 32
    IN  Put(p \o <<"(hex)">>, "", HexByte(header))
        \o Put(p \o <<"(bin)">>, "", BinDigits(header, 8))
        \o (IF raw_subtype \notin PositionSubtypeCodes
            THEN Emit("Error: unexpected message subtype (code)!")
            ELSE PositionHeaderFlags(header, _position_msg_subtypes(raw_subtype), p)
                 \o Put(p \o <<"message-subtype-(bin)">>, "", BinDigits(raw_subtype, 5))
                 \o Put(p \o <<"message-subtype-(hex)">>, "", HexByte(raw_subtype))
                 \o Put(p \o <<"message-subtype">>,
                        _position_msg_subtypes(raw_subtype), << >>))

_parse_position_radio_msg_status(msg_subtype, status, p) ==
    LET s0 == Byte(status, 0)
    IN  Put(p \o <<"(hex)">>, "", _hexlify(status))
        \o Put(p \o <<"(bin)">>, "", _binify(status, 8))
        \o Index(status, 0)
        \o _parse_bool_flag(s0, "triggered-magnetically", 7, p)
        \o (CASE msg_subtype = "radio-silence-in" ->
                   Put(p \o <<"(unused)">>, "", BinDigits(_isolate_bits(s0, 6, 1), 1))
                   \o Index(status, 1)
                   \o Put(p \o <<"(future)-(bin)">>, "",
                          BinifyEach(<<s0 % 64, Byte(status, 1)>>, <<6, 8>>))
              [] msg_subtype = "radio-silence-out" ->
                   _parse_bool_flag(s0, "failsafe-timed-out", 6, p)
                   \o Index(status, 1)
                   \o Put(p \o <<"(reserved)-(bin)">>, "",
                          BinifyEach(<<s0 % 64, Byte(status, 1)>>, <<6, 8>>))
              [] OTHER -> Raise("ValueError"))

\* _position_msg_status_modes
PositionStatusModeCodes == 0..5

_position_msg_status_modes(mode) ==
    CASE mode = 0 -> "(reserved)"
      [] mode = 1 -> "standard-interval"
      [] mode = 2 -> "home-mode"
      [] mode = 3 -> "away-mode"
      [] mode = 4 -> "power-save-mode"
      [] mode = 5 -> "user-mode"

_parse_position_msg_position_status(status, p) ==
    LET mode == _isolate_bits(status, 4, 7)
    IN  Put(p \o <<"(hex)">>, "", HexByte(status))
        \o Put(p \o <<"(bin)">>, "", BinDigits(status, 8))
        \o _parse_bool_flag(status, "vibration-motion", 7, p)
        \o Put(p \o <<"mode-(bin)">>, "", BinDigits(mode, 3))
        \o Put(p \o <<"mode-(int)">>, "", <<mode>>)
        \o (IF mode \notin PositionStatusModeCodes
            THEN Emit("Error: position message status mode has unexpected value")
            ELSE Put(p \o <<"mode">>, _position_msg_status_modes(mode), << >>))
        \o Put(p \o <<"(reserved)">>, "", BinDigits(status % 8, 3))

_parse_position_msg_motion_payload(payload, p) ==
    LET time_of_day == Byte(payload, 6)
    IN  _parse_position_lat_long(Slice(payload, 0, 6), p)
        \o Index(payload, 6)
        \o Put(p \o <<"time-of-day-(hex)">>, "", HexByte(time_of_day))
        \o (IF time_of_day > 240
            THEN Emit("Error: unexpectedly large time-of-day")
            ELSE << >>)
        \o Put(p \o <<"time-of-day-(min)">>, "", <<time_of_day * 6>>)
        \o Put(p \o <<"time-of-day">>, "hh:mm",
               <<(time_of_day * 6) \div 60, (time_of_day * 6) % 60>>)
        \o PutDict(p \o <<"heading-speed">>)
        \o Index(payload, 7)
        \o _parse_position_heading_speed(Byte(payload, 7), p \o <<"heading-speed">>)

\* payload[3] != b'\xff' on line 300: payload[3] is an int and the right
\* side a bytes object, which are unequal for every value
IntDiffersFromBytes(i, bs) == TRUE

_parse_position_msg_null_gps_payload(payload, p) ==
    (IF Slice(payload, 0, 2) # <<255, 255>>
     THEN Emit("Error: first two bytes of payload have unexpected value!")
     ELSE << >>)
    \o Put(p \o <<"(unused-1)">>, "bytes", Slice(payload, 0, 2))
    \o Index(payload, 2)
    \o Put(p \o <<"failing-message-event-id">>, "", HexByte(Byte(payload, 2)))
    \o Index(payload, 3)
    \o (IF IntDiffersFromBytes(Byte(payload, 3), <<255>>)
        THEN Emit("Error: fourth byte of payload has unexpected value!")
        ELSE << >>)
    \o Put(p \o <<"(unused-2)">>, "", <<Byte(payload, 3)>>)
    \o Index(payload, 4)
    \o Put(p \o <<"gps-failed-search-duration">>, "s", <<Byte(payload, 4)>>)
    \o Index(payload, 5)
    \o Put(p \o <<"gps-failed-count">>, "", <<Byte(payload, 5)>>)
    \o Put(p \o <<"failing-message-event-last-bytes">>, "",
           _hexlify(Slice(payload, 6, 8)))

_parse_position_msg_position_payload(payload, p) ==
    _parse_position_lat_long(Slice(payload, 0, 6), p)
    \o PutDict(p \o <<"status">>)
    \o Index(payload, 6)
    \o _parse_position_msg_position_status(Byte(payload, 6), p \o <<"status">>)
    \o PutDict(p \o <<"heading-speed">>)
    \o Index(payload, 7)
    \o _parse_position_heading_speed(Byte(payload, 7), p \o <<"heading-speed">>)

\* _parse_timestamp; the local and UTC renderings are both the instant parsed
_parse_timestamp(raw, p) ==
    LET parsed == FromBytes(raw)
    IN  Put(p \o <<"(hex)">>, "", _hexlify(raw))
        \o Put(p \o <<"int">>, "", <<parsed>>)
        \o Put(p \o <<"local">>, "datetime", <<parsed>>)
        \o Put(p \o <<"utc">>, "datetime", <<parsed>>)

\* the base payload: the match statement of lines 319-346
PositionBasePayload(msg_subtype, payload, p) ==
    CASE msg_subtype = "radio-silence-in" ->
           (IF Slice(payload, 0, 6) # <<0, 0, 0, 0, 0, 0>>
            THEN Emit("Error: first six bytes of payload have unexpected value!")
            ELSE << >>)
           \o Put(p \o <<"(unused)">>, "", _hexlify(Slice(payload, 0, 6)))
           \o PutDict(p \o <<"status">>)
           \o _parse_position_radio_msg_status(
                  msg_subtype, Slice(payload, 6, 8), p \o <<"status">>)
      [] msg_subtype = "radio-silence-out" ->
           _parse_position_lat_long(Slice(payload, 0, 6), p)
           \o PutDict(p \o <<"status">>)
           \o _parse_position_radio_msg_status(
                  msg_subtype, Slice(payload, 6, 8), p \o <<"status">>)
      [] msg_subtype \in {"start-motion", "stop-motion", "in-motion"} ->
           _parse_position_msg_motion_payload(payload, p)
      [] msg_subtype = "null-gps" ->
           _parse_position_msg_null_gps_payload(payload, p)
      [] msg_subtype = "user-position" ->
           _parse_position_lat_long(Slice(payload, 0, 6), p)
           \o Put(p \o <<"user-data">>, "", _hexlify(Slice(payload, 6, 12)))
           \o PutDict(p \o <<"timestamp">>)
           \o _parse_timestamp(Slice(payload, 12, 16), p \o <<"timestamp">>)
      [] msg_subtype = "position" ->
           _parse_position_msg_position_payload(payload, p)
      [] OTHER -> << >>

ChainedPositionTypes == {"unencrypted-chained-position", "encrypted-chained-position"}

_parse_position_msg_payload(msg_type, msg_subtype, payload, p) ==
    PositionBasePayload(msg_subtype, payload, p)
    \o (IF msg_type \notin ChainedPositionTypes THEN << >>
        ELSE PutDict(p \o <<"chained-locations">>)
             \o _parse_position_msg_chain(
                    IF msg_subtype = "user_position"
                    THEN SliceFrom(payload, 16) ELSE SliceFrom(payload, 8),
                    p \o <<"chained-locations">>))

_check_position_msg_length(msg_type, msg_subtype, expected_length, raw) ==
    IF msg_type \notin {"unencrypted-position", "encrypted-position"} THEN << >>
    ELSE IF Len(raw) # expected_length
         THEN Emit("Error: (subtype) message has unexpected length")
         ELSE << >>

\* ------------------------------------------------------------- TLV messages

\* _tlv_header_types
TlvHeaderCodes == {31, 35, 46, 74}

_tlv_header_types(header) ==
    CASE header = 31 -> "pad-tlv"
      [] header = 35 -> "config-updated"
      [] header = 46 -> "user-data"
      [] header = 74 -> "nak"

\* _nak_reasons
NakReasonCodes == {5}

_nak_reasons(reason) == CASE reason = 5 -> "improperly-formatted"

_parse_config_updated_tlv(length, value, p) ==
    (IF length # 2 THEN Emit("Error: unexpected TLV length") ELSE << >>)
    \o Index(value, 0)
    \o Put(p \o <<"value-config-command-(hex)">>, "", HexByte(Byte(value, 0)))
    \o Put(p \o <<"value-config-command">>, "", <<Byte(value, 0)>>)
    \o Index(value, 1)
    \o Put(p \o <<"value-success-code-(hex)">>, "", HexByte(Byte(value, 1)))
    \o Put(p \o <<"value-success-code">>, "", <<Byte(value, 1)>>)

_parse_nak_tlv(length, value, p) ==
    LET reason == Byte(value, 0)
    IN  (IF length # 1 THEN Emit("Error: unexpected TLV length") ELSE << >>)
        \o Index(value, 0)
        \o Put(p \o <<"value-reason-(hex)">>, "", HexByte(reason))
        \o (IF reason \notin NakReasonCodes
            THEN Emit("Error: unexpected NAK reason")
            ELSE Put(p \o <<"value-reason">>, _nak_reasons(reason), << >>))

\* IridiumSBD._parse_tlv_data_msg, with _parse_tlv (lines 374-378) unfolded:
\* header = tlv[0], length = tlv[1], value = tlv[2:]
\* the bytes one short of the checksum, taken as the TLV as well
TlvSpanKeepsChecksumByte(raw) == Slice(raw, 0, Len(raw) - 2)

\* raw[:len(raw)-3], the bytes _parse_tlv_data_msg hands to _parse_tlv
TlvSpan(raw) == Slice(raw, 0, Len(raw) - 3)

\* IridiumSBD._parse_tlv_data_msg
_parse_tlv_data_msg(raw) ==
    LET p   == <<"tlv">>
        tlv == TlvSpan(raw)
        header == Byte(tlv, 0)
        length == Byte(tlv, 1)
        value  == SliceFrom(tlv, 2)
        known  == header \in TlvHeaderCodes
        header_type == IF known THEN _tlv_header_types(header) ELSE "None"
    IN  PutDict(p)
        \o Put(p \o <<"(hex)">>, "", _hexlify(raw))
        \o Index(tlv, 0)
        \o Index(tlv, 1)
        \o Put(p \o <<"type-(hex)">>, "", HexByte(header))
        \o (IF ~known THEN Emit("Error: unexpected header type")
            ELSE Put(p \o <<"type">>, header_type, << >>))
        \o Put(p \o <<"length">>, "", <<length>>)
        \o (IF length # Len(value)
            THEN Emit("Error: inconsistent TLV lengths")
            ELSE << >>)
        \o Put(p \o <<"value-(hex)">>, "", _hexlify(value))
        \o (CASE header_type = "pad-tlv" -> << >>
              [] header_type = "config-updated" ->
                   _parse_config_updated_tlv(length, value, p)
              [] header_type = "user-data" -> << >>
              [] header_type = "nak" -> _parse_nak_tlv(length, value, p)
              [] OTHER -> Emit("Error: unknown TLV header type"))
        \o Put(<<"crc">>, "0x", _hexlify(SliceFrom(raw, Len(raw) - 3)))

\* ----------------------------------------------------- engineering messages

\* _eng_last_reset_types
EngLastResetCodes == {0, 1, 2, 3, 4, 5, 9}

_eng_last_reset_types(c) ==
    CASE c = 0 -> "first-boot"
      [] c = 1 -> "hw-watchdog-reset"
      [] c = 2 -> "sw-watchdog-reset"
      [] c = 3 -> "sw-reset"
      [] c = 4 -> "cpu-lock-reset"
      [] c = 5 -> "power-detect-reset"
      [] c = 9 -> "power-on-reset"

_parse_eng_msg_payload_gps(payload_gps, p) ==
    LET failure_ratio == Byte(payload_gps, 0) % 64
    IN  Put(p \o <<"(hex)">>, "", _hexlify(payload_gps))
        \o Put(p \o <<"(bin)">>, "", _binify(payload_gps, 8))
        \o Index(payload_gps, 0)
        \o Put(p \o <<"failure-ratio-(bin)">>, "", BinDigits(failure_ratio, 6))
        \o Put(p \o <<"failure-ratio">>, "0.1%", <<failure_ratio * 15>>)
        \o Index(payload_gps, 1)
        \o Put(p \o <<"mean-search-time-(hex)">>, "", HexByte(Byte(payload_gps, 1)))
        \o Put(p \o <<"mean-search-time">>, "s", <<Byte(payload_gps, 1)>>)
        \o Index(payload_gps, 2)
        \o Put(p \o <<"mean-satellites-per-fix-(hex)">>, "", HexByte(Byte(payload_gps, 2)))
        \o Put(p \o <<"mean-satellites-per-fix">>, "", <<Byte(payload_gps, 2)>>)
        \o Index(payload_gps, 3)
        \o Put(p \o <<"mean-horizontal-dilution-of-precision-(hex)">>, "",
               HexByte(Byte(payload_gps, 3)))
        \o Put(p \o <<"mean-horizontal-dilution-of-precision">>, "",
               <<Byte(payload_gps, 3)>>)

_parse_eng_msg_payload_iridium(payload_iridium, p) ==
    LET acq_failure_ratio    == _isolate_bits(Byte(payload_iridium, 0), 4, 15)
        ts_net_failure_ratio == _isolate_bits(Byte(payload_iridium, 0), 4, 15)
        transmit_attempts    == Slice(payload_iridium, 1, 3)
    IN  Put(p \o <<"(hex)">>, "", _hexlify(payload_iridium))
        \o Put(p \o <<"(bin)">>, "", _binify(payload_iridium, 8))
        \o Index(payload_iridium, 0)
        \o Put(p \o <<"acq-failure-ratio-(bin)">>, "", BinDigits(acq_failure_ratio, 3))
        \o Put(p \o <<"acq-failure-ratio">>, "0.1%", <<acq_failure_ratio * 67>>)
        \o Put(p \o <<"ts/network-failure-ratio-(bin)">>, "",
               BinDigits(ts_net_failure_ratio, 3))
        \o Put(p \o <<"ts/network-failure-ratio">>, "0.1%", <<ts_net_failure_ratio * 67>>)
        \o Put(p \o <<"transmit-attempts-(hex)">>, "", _hexlify(transmit_attempts))
        \o Put(p \o <<"transmit-attempts">>, "", <<FromBytes(transmit_attempts)>>)
        \o Index(payload_iridium, 3)
        \o Put(p \o <<"mean-acq-time-(hex)">>, "", HexByte(Byte(payload_iridium, 3)))
        \o Put(p \o <<"mean-acq-time">>, "s", <<Byte(payload_iridium, 3)>>)
        \o Index(payload_iridium, 4)
        \o Put(p \o <<"mean-tx-time-(hex)">>, "", HexByte(Byte(payload_iridium, 4)))
        \o Put(p \o <<"mean-tx-time">>, "s", <<Byte(payload_iridium, 4)>>)
        \o Index(payload_iridium, 5)
        \o Put(p \o <<"mean-rssi-at-tx-(hex)">>, "", HexByte(Byte(payload_iridium, 5)))
        \o Put(p \o <<"mean-rssi-at-tx">>, "", <<Byte(payload_iridium, 5) * 100>>)

\* int.from_bytes(x, 'big', signed=True) on lines 481-484, where x is
\* payload_battery[2], an int: from_bytes wants a bytes-like object or an
\* iterable and raises TypeError for an int
FromBytesOfInt(x) == Raise("TypeError")

_parse_eng_msg_payload_battery(payload_battery, p) ==
    Put(p \o <<"(hex)">>, "", _hexlify(payload_battery))
    \o Index(payload_battery, 0)
    \o Put(p \o <<"primary-charge-(hex)">>, "", HexByte(Byte(payload_battery, 0)))
    \o Put(p \o <<"primary-charge">>, "%", <<Byte(payload_battery, 0)>>)
    \o Index(payload_battery, 1)
    \o Put(p \o <<"secondary-charge-(hex)">>, "", HexByte(Byte(payload_battery, 1)))
    \o Put(p \o <<"secondary-charge">>, "%", <<Byte(payload_battery, 1)>>)
    \o Index(payload_battery, 2)
    \o Put(p \o <<"secondary-surplus/deficit-(hex)">>, "",
           HexByte(Byte(payload_battery, 2)))
    \o FromBytesOfInt(Byte(payload_battery, 2))
    \o Put(p \o <<"secondary-surplus/deficit">>, "%", << >>)
    \o Index(payload_battery, 3)
    \o Put(p \o <<"secondary-usage-time-(hex)">>, "", HexByte(Byte(payload_battery, 3)))
    \o Put(p \o <<"secondary-usage-time">>, "%", <<Byte(payload_battery, 3)>>)

_parse_eng_msg_payload_temperature(payload_temperature, p) ==
    Put(p \o <<"(hex)">>, "", _hexlify(payload_temperature))
    \o Index(payload_temperature, 0)
    \o Put(p \o <<"max-since-prev-eng-msg-(hex)">>, "",
           HexByte(Byte(payload_temperature, 0)))
    \o Put(p \o <<"max-since-prev-eng-msg">>, "C", <<Byte(payload_temperature, 0)>>)
    \o Index(payload_temperature, 1)
    \o Put(p \o <<"min-since-prev-eng-msg-(hex)">>, "",
           HexByte(Byte(payload_temperature, 1)))
    \o Put(p \o <<"min-since-prev-eng-msg">>, "C", <<Byte(payload_temperature, 1)>>)
    \o Index(payload_temperature, 2)
    \o Put(p \o <<"mean-since-prev-eng-msg-(hex)">>, "",
           HexByte(Byte(payload_temperature, 2)))
    \o Put(p \o <<"mean-since-prev-eng-msg">>, "C", <<Byte(payload_temperature, 2)>>)

\* value & (1 << (width - 1)) != 0 tests bit width-1 of value
\* the sign read from the bit above the field: width where line 506 has
\* width - 1
TwosComplementSignAboveField(value, width) ==
    IF (value \div (2 ^ width)) % 2 # 0 THEN value - 2 ^ width ELSE value

_parse_twos_complement(value, width) ==
    IF (value \div (2 ^ (width - 1))) % 2 # 0 THEN value - 2 ^ width ELSE value

_parse_eng_msg_payload_acceleration(payload_acceleration, p) ==
    LET acc_x == _isolate_bits(Byte(payload_acceleration, 0), 4, 15)
        acc_y == Byte(payload_acceleration, 0) % 16
        acc_z == _isolate_bits(Byte(payload_acceleration, 1), 4, 7)
    IN  Put(p \o <<"(hex)">>, "", _hexlify(payload_acceleration))
        \o Put(p \o <<"(bin)">>, "", _binify(payload_acceleration, 8))
        \o Index(payload_acceleration, 0)
        \o Put(p \o <<"x-(bin)">>, "", BinDigits(acc_x, 4))
        \o Put(p \o <<"x">>, "0.25g", <<_parse_twos_complement(acc_x, 4)>>)
        \o Put(p \o <<"y-(bin)">>, "", BinDigits(acc_y, 4))
        \o Put(p \o <<"y">>, "0.25g", <<_parse_twos_complement(acc_y, 4)>>)
        \o Index(payload_acceleration, 1)
        \o Put(p \o <<"z-(bin)">>, "", BinDigits(acc_z, 4))
        \o Put(p \o <<"z">>, "0.25g", <<_parse_twos_complement(acc_z, 4)>>)
        \o Index(payload_acceleration, 2)
        \o Put(p \o <<"(reserved)-(bin)">>, "",
               BinifyEach(<<Byte(payload_acceleration, 1) % 8,
                            Byte(payload_acceleration, 2)>>, <<4, 8>>))

_parse_eng_msg_payload(payload, p) ==
    LET config_change_counter == _isolate_bits(Byte(payload, 0), 6, 3)
        powersave_ratio       == _isolate_bits(Byte(payload, 4), 4, 7)
        last_reset_type       == _isolate_bits(Byte(payload, 4), 0, 15)
        mean_lux              == Slice(payload, 26, 28)
        system_status         == Slice(payload, 29, 33)
    IN  Index(payload, 0)
        \o Put(p \o <<"config-change-counter-(bin)">>, "",
               BinDigits(config_change_counter, 2))
        \o Put(p \o <<"config-change-counter">>, "", <<config_change_counter>>)
        \o PutDict(p \o <<"gps">>)
        \o _parse_eng_msg_payload_gps(Slice(payload, 0, 4), p \o <<"gps">>)
        \o Index(payload, 4)
        \o Put(p \o <<"powersave-ratio-(bin)">>, "", BinDigits(powersave_ratio, 3))
        \o Put(p \o <<"powersave-ratio">>, "0.1%", <<powersave_ratio * 67>>)
        \o Put(p \o <<"last-reset-type-(bin)">>, "", BinDigits(last_reset_type, 4))
        \o Put(p \o <<"last-reset-type-(hex)">>, "", HexByte(last_reset_type))
        \o (IF last_reset_type \notin EngLastResetCodes
            THEN Emit("Error: unknown last reset type")
            ELSE Put(p \o <<"last-reset-type">>,
                     _eng_last_reset_types(last_reset_type), << >>))
        \o PutDict(p \o <<"iridium">>)
        \o _parse_eng_msg_payload_iridium(Slice(payload, 5, 11), p \o <<"iridium">>)
        \o PutDict(p \o <<"battery">>)
        \o _parse_eng_msg_payload_battery(Slice(payload, 11, 15), p \o <<"battery">>)
        \o Put(p \o <<"(reserved)-(hex)">>, "", _hexlify(Slice(payload, 15, 20)))
        \o PutDict(p \o <<"temperature">>)
        \o _parse_eng_msg_payload_temperature(
               Slice(payload, 20, 23), p \o <<"temperature">>)
        \o PutDict(p \o <<"acceleration">>)
        \o _parse_eng_msg_payload_acceleration(
               Slice(payload, 23, 26), p \o <<"acceleration">>)
        \o Put(p \o <<"mean-light-intensity-(hex)">>, "", _hexlify(mean_lux))
        \o Put(p \o <<"mean-light-intensity">>, "lux", <<FromBytes(mean_lux)>>)
        \o Index(payload, 28)
        \o Put(p \o <<"mean-charge-current-mean-light-intensity-ratio-(hex)">>, "",
               HexByte(Byte(payload, 28)))
        \o Put(p \o <<"mean-charge-current-mean-light-intensity-ratio">>, "mA/lux",
               <<Byte(payload, 28)>>)
        \o Put(p \o <<"system-status-(hex)">>, "", _hexlify(system_status))
        \o Put(p \o <<"system-status-(bin)">>, "", _binify(system_status, 8))

\* --------------------------------------------------------- encrypted messages

\* the values of _sbd_mo_encrypted_msg_types
EncryptedTypeNames ==
    {"encrypted-position", "encrypted-tlv-data",
     "encrypted-chained-position", "encrypted-engineering"}

\* the keystream byte of a key of the cipher
KeyByte(key) == IF key = "K1" THEN 90 ELSE 165

\* crypto.decrypt(payload): a length-preserving keyed substitution stands for
\* the block cipher
Decipher(key, payload) ==
    [i \in 1..Len(payload) |-> (payload[i] + KeyByte(key)) % 256]

\* _decrypt_payload, its effects
DecryptPayloadEffects(msg_type, payload, key, cipher_fails, p) ==
    IF msg_type \notin EncryptedTypeNames THEN << >>
    ELSE Put(p \o <<"(ciphertext)-(hex)">>, "", _hexlify(payload))
         \o (IF key = "None" \/ key = ""
             THEN Emit("Warning: missing a key to decrypt the payload!")
             ELSE IF cipher_fails
                  THEN Emit("Error: couldn't decrypt payload")
                  ELSE << >>)

\* _decrypt_payload, the value it returns: [none |-> TRUE] stands for None
_decrypt_payload(msg_type, payload, key, cipher_fails) ==
    IF msg_type \notin EncryptedTypeNames
    THEN [none |-> FALSE, bytes |-> payload]
    ELSE IF key = "None" \/ key = "" \/ cipher_fails
         THEN [none |-> TRUE, bytes |-> << >>]
         ELSE [none |-> FALSE, bytes |-> Decipher(key, payload)]

\* --------------------------------------------------------------- all messages

\* _sbd_mo_msg_types
MsgTypeCodes == {0, 1, 2, 53, 55, 56, 57, 58}

_sbd_mo_msg_types(b) ==
    CASE b = 0  -> "unencrypted-position"
      [] b = 1  -> "encrypted-position"
      [] b = 2  -> "encrypted-tlv-data"
      [] b = 53 -> "unencrypted-tlv-data"
      [] b = 55 -> "unencrypted-chained-position"
      [] b = 56 -> "encrypted-chained-position"
      [] b = 57 -> "unencrypted-engineering"
      [] b = 58 -> "encrypted-engineering"

\* msg_type in _sbd_mo_encrypted_msg_types on line 659: msg_type is a name (a
\* str) and the keys of the dictionary are the type bytes (ints), so the
\* membership test is False for every message type
NameInEncryptedTypeKeys(msg_type) == FALSE

\* the two bounds joined by and where line 624 has or
CheckMsgLengthBothBounds(msg_type, raw, min_len, max_len) ==
    IF Len(raw) < min_len /\ Len(raw) > max_len
    THEN Emit("Error: (type) message has unexpected length")
    ELSE << >>

_check_msg_length(msg_type, raw, min_len, max_len) ==
    IF Len(raw) < min_len \/ Len(raw) > max_len
    THEN Emit("Error: (type) message has unexpected length")
    ELSE << >>

_parse_position_msg(msg_type, raw, key, cipher_fails) ==
    LET hp == <<"position-message-header">>
        pp == <<"payload">>
        header == Byte(raw, 0)
        msg_subtype == PositionSubtype(header)
        parseable_payload ==
            _decrypt_payload(msg_type, SliceFrom(raw, 1), key, cipher_fails)
    IN  PutDict(hp)
        \o Index(raw, 0)
        \o _parse_position_msg_header(header, hp)
        \o (IF msg_subtype = "None" THEN << >>
            ELSE (IF msg_subtype = "user-position"
                  THEN _check_position_msg_length(msg_type, msg_subtype, 17, raw)
                  ELSE _check_position_msg_length(msg_type, msg_subtype, 9, raw))
                 \o PutDict(pp)
                 \o DecryptPayloadEffects(
                        msg_type, SliceFrom(raw, 1), key, cipher_fails, pp)
                 \o (IF parseable_payload.none THEN << >>
                     ELSE Put(pp \o <<"(hex)">>, "", _hexlify(parseable_payload.bytes))
                          \o _parse_position_msg_payload(
                                 msg_type, msg_subtype, parseable_payload.bytes, pp)))

_parse_eng_msg(msg_type, raw, key, cipher_fails) ==
    LET pp == <<"payload">>
        parseable_payload == _decrypt_payload(msg_type, raw, key, cipher_fails)
    IN  PutDict(<<"engineering-message-header">>)
        \o PutDict(pp)
        \o DecryptPayloadEffects(msg_type, raw, key, cipher_fails, pp)
        \o (IF parseable_payload.none THEN << >>
            ELSE Put(pp \o <<"(hex)">>, "", _hexlify(parseable_payload.bytes))
                 \o _parse_eng_msg_payload(parseable_payload.bytes, pp))

\* the body of IridiumSBD.load after the message type is known
Dispatch(msg_type, raw, key, cipher_fails) ==
    CASE msg_type \in {"unencrypted-position", "encrypted-position"} ->
           _check_msg_length(msg_type, raw, 10, 18)
           \o _parse_position_msg(msg_type, SliceFrom(raw, 1), key, cipher_fails)
      [] msg_type = "encrypted-tlv-data" ->
           _check_msg_length(msg_type, raw, 12, 66)
           \o _parse_tlv_data_msg(SliceFrom(raw, 1))
      [] msg_type = "unencrypted-tlv-data" ->
           _check_msg_length(msg_type, raw, 7, 66)
           \o _parse_tlv_data_msg(SliceFrom(raw, 1))
      [] msg_type \in ChainedPositionTypes ->
           _check_msg_length(msg_type, raw, 8, 66)
           \o _parse_position_msg(msg_type, SliceFrom(raw, 1), key, cipher_fails)
      [] msg_type \in {"unencrypted-engineering", "encrypted-engineering"} ->
           _check_msg_length(msg_type, raw, 33, 33)
           \o _parse_eng_msg(msg_type, SliceFrom(raw, 1), key, cipher_fails)

\* load that stores the unknown type in the tree where lines 654-656 only
\* print and return
LoadEffectsStoresUnknownType(raw, key, cipher_fails) ==
    Put(<<"(hex)">>, "", _hexlify(raw))
    \o Index(raw, 0)
    \o Put(<<"message-type-(hex)">>, "", HexByte(Byte(raw, 0)))
    \o (IF Byte(raw, 0) \notin MsgTypeCodes
        THEN Emit("Error: Unexpected message type")
             \o Put(<<"message-type">>, "unknown", << >>)
        ELSE Put(<<"message-type">>, _sbd_mo_msg_types(Byte(raw, 0)), << >>)
             \o (IF NameInEncryptedTypeKeys(_sbd_mo_msg_types(Byte(raw, 0)))
                 THEN _check_msg_length(_sbd_mo_msg_types(Byte(raw, 0)), raw, 10, 66)
                 ELSE << >>)
             \o Dispatch(_sbd_mo_msg_types(Byte(raw, 0)), raw, key, cipher_fails))

\* IridiumSBD.load: the effects of the decode of one message
LoadEffects(raw, key, cipher_fails) ==
    Put(<<"(hex)">>, "", _hexlify(raw))
    \o Index(raw, 0)
    \o Put(<<"message-type-(hex)">>, "", HexByte(Byte(raw, 0)))
    \o (IF Byte(raw, 0) \notin MsgTypeCodes
        THEN Emit("Error: Unexpected message type")
        ELSE Put(<<"message-type">>, _sbd_mo_msg_types(Byte(raw, 0)), << >>)
             \o (IF NameInEncryptedTypeKeys(_sbd_mo_msg_types(Byte(raw, 0)))
                 THEN _check_msg_length(_sbd_mo_msg_types(Byte(raw, 0)), raw, 10, 66)
                 ELSE << >>)
             \o Dispatch(_sbd_mo_msg_types(Byte(raw, 0)), raw, key, cipher_fails))

\* IridiumSBD.load: the tree in self.attrs, what was printed, what was raised
load(raw, key, cipher_fails) == Outcome(LoadEffects(raw, key, cipher_fails))

\* ------------------------------------------------------------------- inputs

\* first bytes tried: the eight message types and two that are no type
TypeBytes == {0, 1, 2, 53, 54, 55, 56, 57, 58, 255}

\* second bytes tried: position headers of several subtypes and flag bits,
\* which are TLV types and engineering bytes as well
SecondBytes == {0, 20, 23, 27, 31, 33, 35, 46, 74}

\* the third byte and the byte the rest of the message is filled with: a
\* declared TLV length and a value byte, the first payload bytes
Tails == {<<0, 0>>, <<1, 5>>, <<2, 5>>, <<255, 255>>}

\* the lengths tried: every length up to MaxShort, and the lengths around the
\* largest length any message type allows
Lengths == (0..MaxShort) \cup ((MaxLen - 2)..MaxLen)

\* the message of n bytes that starts t, h, g and goes on with f
Message(t, h, g, f, n) ==
    [i \in 1..n |-> CASE i = 1 -> t [] i = 2 -> h [] i = 3 -> g [] OTHER -> f]

\* keys handed to load: none, the empty string, a key of the cipher
Keys == {"None", "", "K1"}

\* header bytes given to _parse_position_msg_header on its own: every flag
\* combination of the eight subtypes and of two codes that are no subtype
HeaderBytes == {h \in 0..255 : h % 32 \in {0, 1, 2, 3, 4, 5, 20, 23, 27, 31}}

\* 24-bit raw coordinates given to _parse_position_lat_long on its own: both
\* ends of both halves of the range and values inside them
RawCoordinates ==
    {65536 * a + 256 * b + c : a \in {0, 127, 128, 255}, b \in {0, 255}, c \in {0, 1, 255}}

\* the three bytes of a 24-bit value, big-endian
ToBytes3(v) == <<v \div 65536, (v \div 256) % 256, v % 256>>

\* the calls of the codec functions on their own: the function and two numbers
\* TLV-data messages without their last 3 bytes: the type byte alone, the
\* type byte and a TLV header, and the type byte, a TLV header, a declared
\* length and a value of 0 to 3 bytes
TlvDataBodies ==
    {<<t>> : t \in {2, 53}}
    \cup {<<t, h>> : t \in {2, 53}, h \in {0, 31, 35, 46, 74}}
    \cup {<<t, h, g>> \o v :
             t \in {2, 53}, h \in {0, 31, 35, 46, 74}, g \in {0, 1, 2, 255},
             v \in {<< >>, <<0>>, <<5>>, <<0, 0>>, <<5, 1>>, <<5, 1, 2>>}}

\* the last 3 bytes of a TLV-data message
Checksums == {<<0, 0, 0>>, <<5, 1, 2>>, <<35, 2, 5>>, <<255, 255, 255>>}

CodecCalls ==
    {<<"header", h1, h2>> : h1 \in HeaderBytes, h2 \in HeaderBytes}
    \cup {<<"delta_time", b, 0>> : b \in 0..255}
    \cup UNION {{<<"twos_complement", v, w>> : v \in 0..(2 ^ w - 1)} : w \in 1..MaxWidth}
    \cup {<<"lat_long", v1, v2>> : v1 \in RawCoordinates, v2 \in RawCoordinates}
    \cup {<<"null_gps", s, b>> : s \in {0, 255, 65280, 65534, 65535}, b \in 0..255}
    \cup {<<"acceleration", b0, b1>> : b0 \in 0..255, b1 \in {16 * z : z \in 0..15}}
    \cup {<<"iridium", b0, b3>> : b0 \in 0..255, b3 \in {0, 255}}
    \cup {<<"tlv_data", m, <<c1, c2>>>> :
             m \in TlvDataBodies, c1 \in Checksums, c2 \in Checksums}

\* ------------------------------------------------------------ state machine

VARIABLES
    pc,            \* "new" before load is called, "loaded" after it
    raw,           \* the message given to load
    key,           \* the key given to load
    cipher_fails,  \* whether the cipher rejects the ciphertext
    attrs,         \* self.attrs, the attribute tree
    out,           \* the lines printed
    exc,           \* the exception that left load, "none" if it returned
    call,          \* the codec function to call on its own and its arguments
    rets           \* what the codec function returned, << >> before the call

vars == <<pc, raw, key, cipher_fails, attrs, out, exc, call, rets>>

\* IridiumSBD(): no message yet, no tree
NoMessage ==
    /\ pc = "new"
    /\ raw = << >>
    /\ key = "None"
    /\ cipher_fails = FALSE
    /\ attrs = << >>
    /\ out = << >>
    /\ exc = "none"

Init ==
    /\ NoMessage
    /\ call = <<"none", 0, 0>>
    /\ rets = << >>

\* IridiumSBD.load(raw, key)
Load ==
    /\ pc = "new"
    /\ \E t \in TypeBytes, h \in SecondBytes, gf \in Tails,
          n \in Lengths, k \in Keys, c \in BOOLEAN :
          \* a key matters for the encrypted types only, and the cipher runs
          \* only when there is a key
          /\ t \in {1, 2, 56, 58} \/ k = "None"
          /\ k = "K1" \/ ~c
          /\ \E msg \in {Message(t, h, gf[1], gf[2], n)} :
             \E r \in {load(msg, k, c)} :
                /\ raw' = msg
                /\ key' = k
                /\ cipher_fails' = c
                /\ attrs' = r.attrs
                /\ out' = r.out
                /\ exc' = r.exc
    /\ pc' = "loaded"
    /\ UNCHANGED <<call, rets>>

Next == Load

Spec == Init /\ [][Next]_vars

\* ---------------------------------------- the codec functions on their own

CodecInit ==
    /\ NoMessage
    /\ call \in CodecCalls
    /\ rets = << >>

Decoder == <<pc, raw, key, cipher_fails, attrs, out, exc>>

\* _parse_position_msg_header on each of two header bytes
CallParseHeader ==
    /\ call[1] = "header" /\ rets = << >>
    /\ rets' = <<Outcome(_parse_position_msg_header(call[2], << >>)),
                 Outcome(_parse_position_msg_header(call[3], << >>))>>
    /\ UNCHANGED <<Decoder, call>>

\* _parse_chained_location_delta_time on a byte
CallParseDeltaTime ==
    /\ call[1] = "delta_time" /\ rets = << >>
    /\ rets' = <<Outcome(_parse_chained_location_delta_time(call[2], << >>))>>
    /\ UNCHANGED <<Decoder, call>>

\* _parse_twos_complement on a value and a width
CallParseTwosComplement ==
    /\ call[1] = "twos_complement" /\ rets = << >>
    /\ rets' = <<_parse_twos_complement(call[2], call[3])>>
    /\ UNCHANGED <<Decoder, call>>

\* _parse_position_lat_long on two payloads, each with the same raw value as
\* latitude and as longitude
CallParseLatLong ==
    /\ call[1] = "lat_long" /\ rets = << >>
    /\ rets' = <<Outcome(_parse_position_lat_long(
                     ToBytes3(call[2]) \o ToBytes3(call[2]), << >>)),
                 Outcome(_parse_position_lat_long(
                     ToBytes3(call[3]) \o ToBytes3(call[3]), << >>))>>
    /\ UNCHANGED <<Decoder, call>>

\* the null-gps payload of 8 bytes with the 16-bit value s at offsets 0-1 and
\* the byte b at offset 3
NullGpsPayload(s, b) == <<s \div 256, s % 256, 1, b, 2, 3, 4, 5>>

\* _parse_position_msg_null_gps_payload on a payload of 8 bytes
CallParseNullGps ==
    /\ call[1] = "null_gps" /\ rets = << >>
    /\ rets' = <<Outcome(_parse_position_msg_null_gps_payload(
                     NullGpsPayload(call[2], call[3]), << >>))>>
    /\ UNCHANGED <<Decoder, call>>

\* _parse_eng_msg_payload_acceleration on a block of 3 bytes
CallParseAcceleration ==
    /\ call[1] = "acceleration" /\ rets = << >>
    /\ rets' = <<Outcome(_parse_eng_msg_payload_acceleration(
                     <<call[2], call[3], 0>>, << >>))>>
    /\ UNCHANGED <<Decoder, call>>

\* _parse_eng_msg_payload_iridium on a block of 6 bytes
CallParseIridium ==
    /\ call[1] = "iridium" /\ rets = << >>
    /\ rets' = <<Outcome(_parse_eng_msg_payload_iridium(
                     <<call[2], 1, 2, call[3], 4, 5>>, << >>))>>
    /\ UNCHANGED <<Decoder, call>>

\* IridiumSBD.load on each of two TLV-data messages that have the same bytes
\* before their last 3 bytes
LoadTlvDataPair ==
    /\ call[1] = "tlv_data" /\ rets = << >>
    /\ rets' = <<load(call[2] \o call[3][1], "None", FALSE),
                 load(call[2] \o call[3][2], "None", FALSE)>>
    /\ UNCHANGED <<Decoder, call>>

CodecNext ==
    \/ LoadTlvDataPair
    \/ CallParseAcceleration
    \/ CallParseIridium
    \/ CallParseNullGps
    \/ CallParseHeader
    \/ CallParseDeltaTime
    \/ CallParseTwosComplement
    \/ CallParseLatLong

SpecCodec == CodecInit /\ [][CodecNext]_vars

\* ------------------------------------------------------------------ properties

\* the keys of a tree, as paths
KeysOf(tree) == {tree[i].k : i \in DOMAIN tree}

\* the lines printed
Lines(printed) == {printed[i].s : i \in DOMAIN printed}

\* the value last stored under a key of a tree
EntryOf(tree, k) ==
    LET at == {i \in DOMAIN tree : tree[i].k = k}
    IN  tree[CHOOSE i \in at : \A j \in at : j <= i]

\* an entry of the tree that records a warning: its value is a diagnostic
RecordsWarning(e) == e.s \in Lines(out)

\* the message types and position subtypes the claims enumerate
KnownTypeBytes == {0, 1, 2, 53, 55, 56, 57, 58}
KnownSubtypeBits == {0, 1, 3, 4, 5, 20, 23, 27}

\* load was called on a message of at least n bytes
LoadedAtLeast(n) == pc = "loaded" /\ Len(raw) >= n

\* the total length lies in the window of the message type
InLengthWindow ==
    CASE raw[1] \in {0, 1}   -> Len(raw) >= 10 /\ Len(raw) <= 18
      [] raw[1] = 2          -> Len(raw) >= 12 /\ Len(raw) <= 66
      [] raw[1] = 53         -> Len(raw) >= 7 /\ Len(raw) <= 66
      [] raw[1] \in {55, 56} -> Len(raw) >= 8 /\ Len(raw) <= 66
      [] raw[1] \in {57, 58} -> Len(raw) = 33
      [] OTHER               -> TRUE

UnknownType == LoadedAtLeast(1) /\ raw[1] \notin KnownTypeBytes

C2_PositionLengthNeverRaises ==
    (/\ LoadedAtLeast(1)
     /\ raw[1] \in {0, 55} \/ (raw[1] \in {1, 56} /\ key = "K1")
     /\ ~InLengthWindow)
    => exc = "none"

\* C3: for an encrypted position, chained-position or engineering message
\* decoded with no key or an empty key, load returns without raising, the
\* missing-key warning is produced, the payload section holds at most the
\* ciphertext rendering, and the message type and the header fields decoded
\* before the decryption are in the tree.
C3_MissingKeyKeepsHeader ==
    (/\ LoadedAtLeast(1)
     /\ raw[1] \in {1, 56, 58}
     /\ key \in {"None", ""}
     /\ raw[1] \in {1, 56} /\ Len(raw) >= 2 => raw[2] % 32 \in KnownSubtypeBits)
    => /\ exc = "none"
       /\ "Warning: missing a key to decrypt the payload!" \in Lines(out)
       /\ \A k \in KeysOf(attrs) :
             (k # << >> /\ k[1] = "payload") =>
                 k \in {<<"payload">>, <<"payload", "(ciphertext)-(hex)">>}
       /\ <<"message-type">> \in KeysOf(attrs)
       /\ raw[1] \in {1, 56} =>
             <<"position-message-header", "message-subtype">> \in KeysOf(attrs)

\* the flag fields of a decoded header: every field but the renderings (hex)
\* and (bin) of the whole byte
FlagFields(tree) ==
    {<<tree[i].k, tree[i].s, tree[i].n>> :
        i \in {j \in DOMAIN tree : tree[j].k \notin {<<"(hex)">>, <<"(bin)">>}}}

\* C4: two different header bytes of known subtypes never decode to the same
\* set of flag fields.
C4_HeaderFlagsInjective ==
    (/\ call[1] = "header" /\ rets # << >>
     /\ call[2] % 32 \in KnownSubtypeBits
     /\ call[3] % 32 \in KnownSubtypeBits
     /\ FlagFields(rets[1].attrs) = FlagFields(rets[2].attrs))
    => call[2] = call[3]

\* C5: for a TLV-data message (0x35 or 0x02) with a type byte, a length byte
\* and three checksum bytes whose declared length differs from the number of
\* value bytes, load warns, does not raise, and the tree holds value-(hex)
\* of the actual value bytes.
C5_TlvLengthMismatch ==
    (/\ LoadedAtLeast(6)
     /\ raw[1] \in {53, 2}
     /\ raw[3] # Len(raw) - 6)
    => /\ exc = "none"
       /\ "Error: inconsistent TLV lengths" \in Lines(out)
       /\ <<"tlv", "value-(hex)">> \in KeysOf(attrs)
       /\ EntryOf(attrs, <<"tlv", "value-(hex)">>).n
             = _hexlify(SubSeq(raw, 4, Len(raw) - 3))

\* C6: for an unencrypted engineering message (0x39) whose total length is not
\* 33, load reports the length and does not raise.
C6_EngineeringLength ==
    (LoadedAtLeast(1) /\ raw[1] = 57 /\ Len(raw) # 33)
    => /\ exc = "none"
       /\ "Error: (type) message has unexpected length" \in Lines(out)

\* the weights the claims enumerate, in seconds, by the bits 5-7
WeightSeconds == <<30, 120, 900, 3600, 14400, 28800, 43200, 86400>>

\* C7: for a delta-time byte, with weight = bits 5-7 and multiplier = bits
\* 0-4, the duration is multiplier x weight when multiplier > 0, it is the
\* sentinel '>31 days' exactly when multiplier = 0, and 0xff gives 744 hours,
\* the largest duration of any byte.
C7_DeltaTimeDuration ==
    (call[1] = "delta_time" /\ rets # << >>) =>
        LET multiplier == call[2] % 32
            weight     == WeightSeconds[(call[2] \div 32) + 1]
            duration   == EntryOf(rets[1].attrs, <<"duration">>)
        IN  /\ multiplier > 0 =>
                  duration.s = "timedelta" /\ duration.n = <<multiplier * weight>>
            /\ duration.s = ">31 days" <=> multiplier = 0
            /\ call[2] = 255 => duration.n = <<744 * 3600>>
            /\ duration.s = "timedelta" => duration.n[1] <= 744 * 3600

\* C8: _parse_twos_complement(v, w), for w >= 1 and v in 0 .. 2^w - 1, is v
\* when v < 2^(w-1) and v - 2^w otherwise; 4-bit 0b1111 gives -1 and 0b0111
\* gives 7; the result lies in -2^(w-1) .. 2^(w-1) - 1.
C8_TwosComplement ==
    (call[1] = "twos_complement" /\ rets # << >>) =>
        LET v == call[2]
            w == call[3]
        IN  /\ rets[1] = IF v < 2 ^ (w - 1) THEN v ELSE v - 2 ^ w
            /\ (w = 4 /\ v = 15) => rets[1] = -1
            /\ (w = 4 /\ v = 7) => rets[1] = 7
            /\ rets[1] >= -(2 ^ (w - 1))
            /\ rets[1] <= 2 ^ (w - 1) - 1

C8_Witness ==
    /\ call = <<"twos_complement", 15, 4>>
    /\ rets = <<-1>>

\* the decoded coordinate, in units of full/2^23 degrees
Decimal(tree, name) == EntryOf(tree, <<name>>).n[1]

\* the decoding of one coordinate, of raw value v1 in the first payload and
\* v2 in the second, as C9 describes it
CoordinateDecoding(name, v1, v2) ==
    LET d1 == Decimal(rets[1].attrs, name)
        d2 == Decimal(rets[2].attrs, name)
    IN  /\ d1 = IF v1 <= 2 ^ 23 THEN v1 ELSE v1 - 2 ^ 24
        /\ ((v1 <= 2 ^ 23) = (v2 <= 2 ^ 23) /\ v1 < v2) => d1 < d2
        /\ v1 <= 2 ^ 23 => d1 >= 0
        /\ v1 > 2 ^ 23 => d1 < 0
        /\ (v1 = 2 ^ 24 - 1 /\ d2 < 0) => (d1 = -1 /\ d2 <= d1)
        /\ d1 >= -(2 ^ 23) /\ d1 <= 2 ^ 23

\* C9: the latitude of raw value v, in units of 90/2^23 degree, is v for
\* v <= 2^23 and v - 2^24 above; it is strictly increasing within each half,
\* non-negative on the first and negative on the second, 2^24 - 1 gives the
\* negative latitude of the smallest magnitude, and the result stays within
\* [-90, 90] degrees; the longitude likewise with 180/2^23 and [-180, 180].
C9_LatLongDecoding ==
    (call[1] = "lat_long" /\ rets # << >>) =>
        /\ CoordinateDecoding("latitude-(decimal)", call[2], call[3])
        /\ CoordinateDecoding("longitude-(decimal)", call[2], call[3])

C9_Witness ==
    /\ call = <<"lat_long", 2 ^ 24 - 1, 2 ^ 23 + 1>>
    /\ rets # << >>
    /\ Decimal(rets[1].attrs, "latitude-(decimal)") = -1
    /\ Decimal(rets[2].attrs, "longitude-(decimal)") = 1 - 2 ^ 23

LengthDetected == LoadedAtLeast(1) /\ ~InLengthWindow
SubtypeDetected ==
    LoadedAtLeast(2) /\ raw[1] \in {0, 1, 55, 56} /\ raw[2] % 32 \notin KnownSubtypeBits
TlvLengthDetected ==
    LoadedAtLeast(6) /\ raw[1] \in {2, 53} /\ raw[3] # Len(raw) - 6
MissingKeyDetected ==
    /\ LoadedAtLeast(2)
    /\ key \in {"None", ""}
    /\ raw[1] = 58 \/ (raw[1] \in {1, 56} /\ raw[2] % 32 \in KnownSubtypeBits)

C11_EncryptedLengthWindow ==
    (/\ LoadedAtLeast(1)
     /\ raw[1] \in {1, 2, 56, 58}
     /\ Len(raw) < 10 \/ Len(raw) > 66)
    => "Error: (type) message has unexpected length" \in Lines(out)

\* the part of a tree decoded from the payload: the payload and TLV sections
\* and the checksum, without the rendering of the ciphertext
DecodedPayload(tree) ==
    {<<tree[i].k, tree[i].s, tree[i].n>> :
        i \in {j \in DOMAIN tree :
                 /\ tree[j].k[1] \in {"payload", "tlv", "crc"}
                 /\ tree[j].k # <<"payload", "(ciphertext)-(hex)">>}}

\* the unencrypted message that carries the plaintext of an encrypted one:
\* the header byte of a position message is not part of the ciphertext
PlainMessage ==
    CASE raw[1] \in {1, 56} /\ Len(raw) >= 2 ->
           <<raw[1] - 1, raw[2]>> \o Decipher(key, SubSeq(raw, 3, Len(raw)))
      [] raw[1] \in {1, 56} -> <<raw[1] - 1>>
      [] raw[1] = 58 -> <<57>> \o Decipher(key, SubSeq(raw, 2, Len(raw)))
      [] raw[1] = 2  -> <<53>> \o Decipher(key, SubSeq(raw, 2, Len(raw)))

\* C12: the payload fields of a message of an encrypted type (0x01, 0x02,
\* 0x38, 0x3a) are decoded from the output of the cipher on the payload bytes
\* under the given key, never from the ciphertext; the payload bytes of an
\* unencrypted type are decoded unchanged and no ciphertext field is stored.
C12_DecryptRouting ==
    LoadedAtLeast(1) =>
        /\ (raw[1] \in {1, 2, 56, 58} /\ key = "K1" /\ ~cipher_fails) =>
              DecodedPayload(attrs)
                 = DecodedPayload(load(PlainMessage, "None", FALSE).attrs)
        /\ (raw[1] \in {1, 2, 56, 58} /\ (key # "K1" \/ cipher_fails)) =>
              DecodedPayload(attrs) \subseteq {<<<<"payload">>, "dict", << >>>>}
        /\ raw[1] \in {0, 53, 55, 57} =>
              /\ \A k \in KeysOf(attrs) : k[Len(k)] # "(ciphertext)-(hex)"
              /\ <<"payload", "(hex)">> \in KeysOf(attrs) =>
                    EntryOf(attrs, <<"payload", "(hex)">>).n
                       = _hexlify(SubSeq(raw, IF raw[1] = 57 THEN 2 ELSE 3, Len(raw)))

\* the same routing with encrypted-tlv-data left aside: it holds
RoutingExceptEncryptedTlv ==
    (LoadedAtLeast(1) /\ raw[1] = 2) \/ C12_DecryptRouting

\* a position or chained-position message whose header byte has no known
\* subtype in its low 5 bits
UnknownSubtype ==
    /\ LoadedAtLeast(2)
    /\ raw[1] \in {0, 1, 55, 56}
    /\ raw[2] % 32 \notin KnownSubtypeBits

\* C13: for a position or chained-position message whose header has no known
\* subtype, load returns without raising and the tree holds the message type
\* and the renderings (hex) and (bin) of the header byte, and no subtype
\* field, no header flag field and no payload section.
C13_UnknownSubtypeStops ==
    UnknownSubtype =>
        /\ exc = "none"
        /\ KeysOf(attrs) =
              {<<"(hex)">>, <<"message-type-(hex)">>, <<"message-type">>,
               <<"position-message-header">>,
               <<"position-message-header", "(hex)">>,
               <<"position-message-header", "(bin)">>}
        /\ EntryOf(attrs, <<"message-type">>).s = _sbd_mo_msg_types(raw[1])
        /\ EntryOf(attrs, <<"position-message-header", "(hex)">>).n = HexByte(raw[2])
        /\ EntryOf(attrs, <<"position-message-header", "(bin)">>).n
              = BinDigits(raw[2], 8)

C13_Witness ==
    /\ UnknownSubtype
    /\ raw[1] = 56 /\ raw[2] = 31 /\ key = "K1"
    /\ Len(raw) = 20
    /\ Len(attrs) = 6
    /\ exc = "none"

\* the payload offset at which the chained locations begin, as C15 states it
ChainStart == IF raw[2] % 32 = 23 THEN 16 ELSE 8

\* the length of the chained-location span of an unencrypted chained-position
\* message: the payload is what follows the type byte and the header byte
ChainSpan == Len(raw) - 2 - ChainStart

\* an unencrypted chained-position message of a known subtype
ChainedMessage ==
    /\ LoadedAtLeast(2)
    /\ raw[1] = 55
    /\ raw[2] % 32 \in KnownSubtypeBits

\* C14: for a chained-position message whose chained-location span is not a
\* multiple of 8 bytes long, the decoding does not raise and every complete
\* 8-byte record before the remainder is in the tree under its index.
C14_ChainRemainder ==
    (ChainedMessage /\ ChainSpan > 0 /\ ChainSpan % 8 # 0) =>
        /\ exc = "none"
        /\ \A i \in 0..((ChainSpan \div 8) - 1) :
              <<"payload", "chained-locations", ToString(i), "status-prod">>
                 \in KeysOf(attrs)

\* C15: in a chained-position message the chained-location sequence begins
\* at payload offset 16 when the subtype is user-position (0x17) and at
\* payload offset 8 for every other subtype.
C15_ChainOffset ==
    (/\ ChainedMessage
     /\ <<"payload", "chained-locations", "(hex)">> \in KeysOf(attrs))
    => EntryOf(attrs, <<"payload", "chained-locations", "(hex)">>).n
          = _hexlify(SubSeq(raw, 3 + ChainStart, Len(raw)))

\* the same offsets with the subtype user-position left aside: it holds
ChainOffsetExceptUserPosition ==
    (LoadedAtLeast(2) /\ raw[2] % 32 = 23) \/ C15_ChainOffset

\* an unencrypted position or chained-position message whose header has the
\* subtype user-position (0x17)
UserPositionMessage ==
    /\ LoadedAtLeast(2)
    /\ raw[1] \in {0, 55}
    /\ raw[2] % 32 = 23

\* C16: for a position message of subtype user-position (0x17) the header
\* section holds message-count (bits 6-7) and gps-quality (bit 5), the length
\* expected of a non-chained message is 17 bytes after the type byte, and the
\* payload section holds the latitude and longitude of bytes 0-5, the user
\* data of bytes 6-11 and the timestamp of bytes 12-15.
C16_UserPosition ==
    UserPositionMessage =>
        /\ <<"position-message-header", "message-count">> \in KeysOf(attrs)
        /\ EntryOf(attrs, <<"position-message-header", "message-count">>).n
              = <<raw[2] \div 64>>
        /\ <<"position-message-header", "gps-quality-(bin)">> \in KeysOf(attrs)
        /\ EntryOf(attrs, <<"position-message-header", "gps-quality-(bin)">>).n
              = <<(raw[2] \div 32) % 2>>
        /\ raw[1] = 0 =>
              ("Error: (subtype) message has unexpected length" \in Lines(out)
                  <=> Len(raw) - 1 # 17)
        /\ Len(raw) >= 18 =>
              /\ <<"payload", "latitude-(hex)">> \in KeysOf(attrs)
              /\ <<"payload", "longitude-(hex)">> \in KeysOf(attrs)
              /\ <<"payload", "user-data">> \in KeysOf(attrs)
              /\ EntryOf(attrs, <<"payload", "user-data">>).n
                    = _hexlify(SubSeq(raw, 9, 14))
              /\ <<"payload", "timestamp">> \in KeysOf(attrs)

\* C17: for a null-gps header byte (low 5 bits 0x14), powersave-mode is bit 5
\* and the mismatch warning is produced exactly when bits 6-7 differ from
\* 0b11.
C17_NullGpsHeader ==
    (call[1] = "header" /\ rets # << >> /\ call[2] % 32 = 20) =>
        /\ EntryOf(rets[1].attrs, <<"powersave-mode">>).n = <<(call[2] \div 32) % 2>>
        /\ "Error: bit 5 of message header has unexpected value!"
              \in Lines(rets[1].out)
           <=> call[2] \div 64 # 3

\* the sentinel warnings of the null-gps payload
SentinelWarnings ==
    {"Error: first two bytes of payload have unexpected value!",
     "Error: fourth byte of payload has unexpected value!"}

\* C18: for a null-gps payload of 8 bytes a sentinel warning is produced
\* exactly when bytes 0-1 differ from 0xFFFF or byte 3 differs from 0xFF; the
\* event id is byte 2, the search duration byte 4, the fail count byte 5 and
\* the trailing event-id bytes are bytes 6-7.
C18_NullGpsSentinels ==
    (call[1] = "null_gps" /\ rets # << >>) =>
        LET payload == NullGpsPayload(call[2], call[3])
            tree    == rets[1].attrs
        IN  /\ rets[1].exc = "none"
            /\ (Lines(rets[1].out) \cap SentinelWarnings # {})
                  <=> (call[2] # 65535 \/ call[3] # 255)
            /\ EntryOf(tree, <<"failing-message-event-id">>).n = HexByte(payload[3])
            /\ EntryOf(tree, <<"gps-failed-search-duration">>).n = <<payload[5]>>
            /\ EntryOf(tree, <<"gps-failed-count">>).n = <<payload[6]>>
            /\ EntryOf(tree, <<"failing-message-event-last-bytes">>).n
                  = _hexlify(<<payload[7], payload[8]>>)

\* the signed value of a field of w bits
Signed(v, w) == IF v < 2 ^ (w - 1) THEN v ELSE v - 2 ^ w

\* C19: in the acceleration block x and y are the signed 4-bit values of the
\* high and the low nibble of the first byte and z is the signed 3-bit value
\* of its field in the second byte, in units of 0.25 g: z lies in -4 .. 3 and
\* a z field of 0b111 gives -0.25 g.
C19_Acceleration ==
    (call[1] = "acceleration" /\ rets # << >>) =>
        LET x == EntryOf(rets[1].attrs, <<"x">>).n[1]
            y == EntryOf(rets[1].attrs, <<"y">>).n[1]
            z == EntryOf(rets[1].attrs, <<"z">>).n[1]
            z_field == (call[3] \div 16) % 8
        IN  /\ x = Signed(call[2] \div 16, 4)
            /\ y = Signed(call[2] % 16, 4)
            /\ z = Signed(z_field, 3)
            /\ z >= -4 /\ z <= 3
            /\ z_field = 7 => z = -1

\* the acceleration on the x and y axes alone: this part holds
AccelerationXY ==
    (call[1] = "acceleration" /\ rets # << >>) =>
        /\ EntryOf(rets[1].attrs, <<"x">>).n[1] = Signed(call[2] \div 16, 4)
        /\ EntryOf(rets[1].attrs, <<"y">>).n[1] = Signed(call[2] % 16, 4)

\* the two failure ratios of the modem block, in units of 0.1 %
AcqFailureRatio == EntryOf(rets[1].attrs, <<"acq-failure-ratio">>).n[1]
TsNetFailureRatio == EntryOf(rets[1].attrs, <<"ts/network-failure-ratio">>).n[1]

\* C20: in the Iridium-modem block the acquisition-failure ratio and the
\* timeslot/network-failure ratio are raw values in 0 .. 7 times 6.7 %, taken
\* from two different 3-bit fields of the first byte: neither raw value
\* exceeds 7 (and some first byte gives two different ratios).
C20_IridiumRatios ==
    (call[1] = "iridium" /\ rets # << >>) =>
        /\ AcqFailureRatio \in {67 * r : r \in 0..7}
        /\ TsNetFailureRatio \in {67 * r : r \in 0..7}

\* the two ratios are equal for every first byte, so that no first byte gives
\* two different ratios: this holds
IridiumRatiosEqual ==
    (call[1] = "iridium" /\ rets # << >>) =>
        AcqFailureRatio = TsNetFailureRatio

\* an unencrypted engineering message of exactly 33 bytes
EngineeringMessage == LoadedAtLeast(33) /\ Len(raw) = 33 /\ raw[1] = 57

\* the battery block of an engineering message: bytes 11-14 of what follows
\* the type byte
BatteryByte(i) == raw[2 + 11 + i]

\* C21: for an unencrypted engineering message of exactly 33 bytes, decoding
\* does not raise, the battery block holds primary-charge and
\* secondary-charge as the unsigned battery bytes 0 and 1 and
\* secondary-surplus/deficit as the signed 8-bit value of battery byte 2, and
\* the temperature, acceleration, light and system-status fields follow.
C21_EngineeringBattery ==
    EngineeringMessage =>
        /\ exc = "none"
        /\ EntryOf(attrs, <<"payload", "battery", "primary-charge">>).n
              = <<BatteryByte(0)>>
        /\ EntryOf(attrs, <<"payload", "battery", "secondary-charge">>).n
              = <<BatteryByte(1)>>
        /\ <<"payload", "battery", "secondary-surplus/deficit">> \in KeysOf(attrs)
        /\ EntryOf(attrs, <<"payload", "battery", "secondary-surplus/deficit">>).n
              = <<Signed(BatteryByte(2), 8)>>
        /\ {<<"payload", "temperature">>, <<"payload", "acceleration">>,
            <<"payload", "mean-light-intensity">>,
            <<"payload", "system-status-(hex)">>} \subseteq KeysOf(attrs)

\* the number of bytes a rendering of _hexlify shows
HexBytes(digits) == Cardinality({i \in DOMAIN digits : digits[i] # 16}) \div 2

\* C22: for an engineering message of exactly 33 bytes the byte span handed
\* to the payload decoder contains every offset of the field layout, 0 .. 32,
\* so that all fields are complete and system-status is 4 bytes long.
C22_EngineeringLayout ==
    EngineeringMessage =>
        /\ HexBytes(EntryOf(attrs, <<"payload", "(hex)">>).n) >= 33
        /\ <<"payload", "system-status-(hex)">> \in KeysOf(attrs)
        /\ HexBytes(EntryOf(attrs, <<"payload", "system-status-(hex)">>).n) = 4

\* two TLV-data messages that differ at most in their last 3 bytes, decoded
TlvDataPair == call[1] = "tlv_data" /\ rets # << >>

\* the entries of a tree that show the last 3 bytes of a TLV-data message
ChecksumKeys == {<<"crc">>, <<"(hex)">>, <<"tlv", "(hex)">>}

\* a tree without the entries that show the last 3 bytes
WithoutChecksum(tree) ==
    SelectSeq(tree, LAMBDA e : e.k \notin ChecksumKeys)

\* the bytes of a sequence from the 1-based position i on
From(bs, i) == [j \in 1..(IF Len(bs) < i THEN 0 ELSE Len(bs) - i + 1) |-> bs[j + i - 1]]

\* the hex digits of a byte sequence, two for each byte
Nibbles(bs) ==
    [j \in 1..(2 * Len(bs)) |->
        IF j % 2 = 1 THEN bs[(j + 1) \div 2] \div 16 ELSE bs[j \div 2] % 16]

\* the hex digits a rendering shows, without the separators
DigitsShown(digits) == SelectSeq(digits, LAMBDA d : d # 16)

====
